---- MODULE Spec2Model ----
(***************************************************************************)
(* triplesec: secular evolution of a hierarchical triple.                  *)
(*                                                                         *)
(* Model of the two integrator classes, Triple (src/triplesec.py, the      *)
(* massive model) and Triple_vector (src/ts_vector.py, the test-particle   *)
(* model): construction, the derived fields, the driver step _step, the    *)
(* driver loops integrate, ecc_extrema, printflips, flip_times and         *)
(* flip_period, reset, the vector model's derivative function _deriv, and  *)
(* the divisors of the massive model's derivative function _deriv.         *)
(*                                                                         *)
(* The ODE solver (scipy.integrate.ode) and the root solver                *)
(* (scipy.optimize.root) are external.  One call of                        *)
(* solver.integrate(tstop, step=True) is a nondeterministic choice of the  *)
(* solver's new time, state vector and success flag from a finite set of   *)
(* outcomes; one call of root is a choice of its result.                   *)
(* Real quantities are integers on fixed grids: eccentricities in units    *)
(* of 1/EccScale, angles in units of 2*pi/AngleRes, lengths in solar       *)
(* radii, wall-clock time in ticks.                                        *)
(***************************************************************************)
EXTENDS Integers, Sequences, FiniteSets, TLC

\* ------------------------------------------------------------------ grids
\* Eccentricity e is the integer e * EccScale, so 1 - e is EccScale - e.
EccScale == 10
\* Angles are integers; 2*pi is AngleRes angle units.
AngleRes == 4
\* A loop without a stop time is followed for at most MaxSteps driver steps.
MaxSteps == 4
\* One driver step takes 0..MaxTick ticks of wall-clock time.
MaxTick == 1
\* Largest stop time of the configurations (years).
MaxT == 4

\* ts_constants.au, in solar radii (1 au = 215 R_sun).
au == 215
\* ts_constants.yr2s: solver time units (seconds) per year, scaled down.
yr2s == 2
\* Triple_vector.tsec: years per unit of the vector solver's time, scaled down.
tsec == 2

TwoPi == AngleRes

\* Python's None, and a defined number v.
None == <<>>
Some(v) == <<v>>
Val(x) == x[1]

\* ---------------------------------------------------------------- helpers
\* C's fmod: the result takes the sign of the dividend.
TruncMod(a, n) == IF a < 0 THEN 0 - ((0 - a) % n) ELSE a % n
\* Python's x % n for n > 0: the result takes the sign of the divisor.
PyMod(a, n) == a % n

\* np.sign
Sign(x) == IF x > 0 THEN 1 ELSE IF x < 0 THEN 0 - 1 ELSE 0

\* e_prev2 < e_prev > e, Python's chained comparison.
IsMax(a, b, c) == a < b /\ b > c

\* ------------------------------------------------------------------ state
VARIABLES
  \* constructor arguments and configuration fields
  model,        \* "massive" (Triple) or "vector" (Triple_vector)
  tstop, cputstop, outfreq, outfilename, r1, r2, epsoct,
  quadrupole, octupole, hexadecapole, gr,
  \* the arguments y and epsoct of one call of Triple_vector._deriv
  args,
  \* object fields
  a1, a2, e2,   \* Some(v), or None after the epsoct override
  priv_a1,      \* self._a1: a1 in solver units (solar radii)
  e1, g1, g2,
  th,           \* massive: cos i (its sign); vector: cos(inc) of construction
  jz,           \* vector: jvec[2]; massive: unused
  t, priv_t,    \* self.t (years) and self._t (solver time)
  nstep, collision,
  outfile,      \* "unset" (no attribute), "open", "closed"
  sol,          \* the solver's own time, state vector and success flag
  \* derived fields (0 until the constructor computes them)
  Th, CKL,      \* vector: Kozai's integral and the libration constant
  cosphi,       \* massive: the angle between the periastron directions
  priv_G1,      \* massive: self._G1
  C2, C3,       \* massive: the quadrupole and octupole coefficients
  \* construction
  ehatvec_sol,  \* the result of root(_evec_root, ...): [success, x]
  snap,         \* the fields saved by _save_initial_params
  \* the running call
  mode, pc, err, nflips,
  elapsed,      \* wall-clock ticks since the call started
  t_prev, e_prev, e_prev2, sign_prev,
  flip_count, fliptime_prev, periods, retval,
  out,          \* the records written so far (stdout or outfile)
  der,          \* the value returned by _deriv(t, y, epsoct)
  \* history
  resets,       \* the number of reset() calls so far
  samples       \* every state of the trajectory, initial state first

cfgvars == <<model, tstop, cputstop, outfreq, outfilename, r1, r2, epsoct,
             quadrupole, octupole, hexadecapole, gr, args>>
derived == <<Th, CKL, cosphi, priv_G1, C2, C3>>
objvars == <<a1, a2, e2, priv_a1, e1, g1, g2, th, jz, t, priv_t, nstep,
             collision, outfile, sol, derived>>
runvars == <<mode, pc, err, nflips, elapsed, t_prev, e_prev, e_prev2,
             sign_prev, flip_count, fliptime_prev, periods, retval, out>>
aux == <<ehatvec_sol, snap, resets, der>>
vars == <<cfgvars, objvars, runvars, aux, samples>>

stepvars == <<e1, g1, g2, th, jz, t, priv_t, nstep, sol, a1, samples>>
localvars == <<t_prev, e_prev, e_prev2, sign_prev, flip_count, fliptime_prev,
               periods, retval>>

\* ---------------------------------------------------------------- records
\* ts_printout / printout: one line of the current state.  The line carries
\* the time and the state; the model keeps the time and the eccentricity.
StateRecord(tt, ee) == [kind |-> "state", t |-> tt, e |-> ee]
\* The "t_prev e_prev" line of ecc_extrema and printflips.
EventRecord(tt, ee) == [kind |-> "event", t |-> tt, e |-> ee]

\* ----------------------------------------------------------- construction
\* The constructor is called with these arguments (a2 = 20, the default,
\* throughout).
InitWith(models, tstops, cpus, freqs, files, ra, rb, eps, a1s, e1s, sgs) ==
  /\ model \in models
  /\ tstop \in tstops
  /\ cputstop \in cpus
  /\ outfreq \in freqs
  /\ outfilename \in files
  /\ r1 \in ra
  /\ r2 \in rb
  /\ epsoct \in eps
  /\ a1 \in {Some(x) : x \in a1s}
  /\ a2 = Some(20)
  /\ e1 \in e1s
  /\ \E s \in sgs : th = s /\ jz = s
  /\ g1 = 0 /\ g2 = 0
  /\ priv_a1 = 0 /\ t = 0 /\ priv_t = 0 /\ nstep = 0
  /\ collision = FALSE
  /\ outfile = "unset"
  /\ sol = [t |-> 0, y |-> <<>>, ok |-> TRUE]
  /\ Th = 0 /\ CKL = 0 /\ cosphi = 0 /\ priv_G1 = 0 /\ C2 = 0 /\ C3 = 0
  /\ ehatvec_sol = None /\ snap = None /\ resets = 0 /\ der = None
  /\ mode = "none" /\ pc = "init" /\ err = "none" /\ nflips = 0
  /\ elapsed = 0
  /\ t_prev = 0 /\ e_prev = 0 /\ e_prev2 = 0 /\ sign_prev = 0
  /\ flip_count = 0 /\ fliptime_prev = 0 /\ periods = <<>> /\ retval = None
  /\ out = <<>>
  /\ samples = <<>>

\* The quadrupole and octupole flags of the constructor call, and the
\* arguments of the call of _deriv that is followed.
InitFlags(qs, os, ys) == quadrupole \in qs /\ octupole \in os /\ args \in ys

\* The hexadecapole and gr flags and the outer eccentricity e2 of the
\* constructor call.
InitTerms(hs, grs, e2s) == hexadecapole \in hs /\ gr \in grs /\ e2 \in e2s

\* hexadecapole=False, gr=False, e2=.3, the defaults.
DefaultTerms == InitTerms({FALSE}, {FALSE}, {Some(3)})

\* quadrupole=True, octupole=True, the defaults; _deriv at the origin.
Zero6 == <<0, 0, 0, 0, 0, 0>>
DefaultArgs == [y |-> Zero6, epsoct |-> 0]
DefaultFlags == InitFlags({TRUE}, {TRUE}, {DefaultArgs}) /\ DefaultTerms

\* open(outfilename, 'w') when a file is named; otherwise self.outfile is
\* never assigned.
OpenOutfile(name) == IF name # None THEN "open" ELSE "unset"

\* The epsoct override of both constructors: a1, a2 and e2 are set to None
\* when epsoct is supplied, and kept otherwise.
Override(x) == IF epsoct # None THEN None ELSE x

\* x * au, x ** 2: arithmetic on None raises TypeError.
IsNumber(x) == x # None

\* ---------------------------------------------------------- derived fields
\* cos and sin on the angle grid, exact where the angle is a multiple of a
\* quarter turn.
Cos(g) == IF g = 0 THEN 1 ELSE IF 2 * g = AngleRes THEN 0 - 1 ELSE 0
Sin(g) ==
  IF 4 * g = AngleRes THEN 1 ELSE IF 4 * g = 3 * AngleRes THEN 0 - 1 ELSE 0

\* The masses m1 and m2 of the massive model's constructor call.
m1 == 2
m2 == 1

\* self.octupole of the massive model: the constructor clears the flag when
\* e2 == 0.  self.e2 is not assigned after construction, so the field is this
\* function of the constructor's arguments.
Triple_octupole == octupole /\ e2 # Some(0)

\* Triple.calc_cosphi: -cos g1 cos g2 - th sin g1 sin g2
calc_cosphi(ga, gb, ci) == 0 - Cos(ga) * Cos(gb) - ci * Sin(ga) * Sin(gb)
\* Triple.calc_G1, squared and without its constant factor
\* G m1^2 m2^2 / (m1 + m2): _a1 (1 - e1^2), with e1 in units of 1/EccScale.
calc_G1(a, e) == a * (EccScale * EccScale - e * e)
\* Triple.calc_C without the constant factors of C2 and C3:
\* C2 ~ _a1^2 and C3 ~ (m1 - m2) _a1^3, each 0 when its term is disabled.
calc_C2(a) == IF quadrupole THEN a * a ELSE 0
calc_C3(a) == IF Triple_octupole THEN (m1 - m2) * a * a * a ELSE 0

\* Triple_vector.calc_Th: (1 - e1^2) cos^2(inc), with ci = cos(inc).
calc_Th(e, ci) == (EccScale * EccScale - e * e) * ci * ci
\* Triple_vector.calc_CKL, doubled:
\* e1^2 (1 - 5/2 sin^2(inc) sin^2(g1)).
calc_CKL(e, ci, g) == e * e * (2 - 5 * (1 - ci * ci) * Sin(g) * Sin(g))

\* ----------------------------------------------------------- construction
\* Triple.__init__.  After the override the unit conversion
\* self._a1 = self.a1 * au needs a number.  calc_C and calc_G1 then use
\* _a1, and update() computes cosphi from the configured angles.
Triple_init ==
  /\ pc = "init" /\ model = "massive"
  /\ a2' = Override(a2) /\ e2' = Override(e2)
  /\ IF ~IsNumber(Override(a1))
     THEN /\ a1' = Override(a1)
          /\ pc' = "raised" /\ err' = "TypeError"
          /\ UNCHANGED <<priv_a1, t, priv_t, nstep, collision, outfile, sol,
                         cosphi, priv_G1, C2, C3, samples>>
     ELSE /\ priv_a1' = Val(Override(a1)) * au
          /\ C2' = calc_C2(priv_a1') /\ C3' = calc_C3(priv_a1')
          /\ priv_G1' = calc_G1(priv_a1', e1)
          /\ cosphi' = calc_cosphi(g1, g2, th)
          /\ a1' = Some(priv_a1' \div au)
          /\ t' = 0 /\ priv_t' = 0 /\ nstep' = 0 /\ collision' = FALSE
          /\ outfile' = OpenOutfile(outfilename)
          /\ sol' = [t |-> 0,
                     y |-> [a1 |-> priv_a1', e1 |-> e1, g1 |-> g1,
                            g2 |-> g2, th |-> th],
                     ok |-> TRUE]
          /\ samples' = <<[t |-> 0, e |-> e1, s |-> Sign(th)]>>
          /\ pc' = "ready"
          /\ UNCHANGED err
  /\ UNCHANGED <<e1, g1, g2, th, jz, Th, CKL>>
  /\ UNCHANGED <<cfgvars, aux, mode, nflips, elapsed, localvars, out>>

\* |evec| for evec = e1 * ehatvec, with |ehatvec| = x / EccScale.
NormEvec(e, x) == (e * x) \div EccScale

\* Triple_vector.__init__ with root() returning r = [success, x]: only r.x is
\* read.  After the override
\* Phi0 = 4 pi^2 m3 a1**2 / (a2**3 (1 - e2**2)**(3/2)) needs numbers.
\* update() computes Th and CKL from the configured e1 and then takes e1
\* from evec; _save_initial_params follows.
Vector_init(R) ==
  /\ pc = "init" /\ model = "vector"
  /\ a1' = Override(a1) /\ a2' = Override(a2) /\ e2' = Override(e2)
  /\ ehatvec_sol' \in R
  /\ IF ~IsNumber(Override(a1))
     THEN /\ pc' = "raised" /\ err' = "TypeError"
          /\ UNCHANGED <<e1, Th, CKL, snap, t, priv_t, nstep, outfile, sol,
                         samples>>
     ELSE /\ Th' = calc_Th(e1, th)
          /\ CKL' = calc_CKL(e1, th, g1)
          /\ e1' = NormEvec(e1, ehatvec_sol'.x)
          /\ snap' = [e1_0 |-> e1', e2_0 |-> e2', g1_0 |-> g1, jz_0 |-> jz]
          /\ t' = 0 /\ priv_t' = 0 /\ nstep' = 0
          /\ outfile' = OpenOutfile(outfilename)
          /\ sol' = [t |-> 0, y |-> [jz |-> jz, e |-> e1'], ok |-> TRUE]
          /\ samples' = <<[t |-> 0, e |-> e1', s |-> Sign(jz)]>>
          /\ pc' = "ready"
          /\ UNCHANGED err
  /\ UNCHANGED <<priv_a1, g1, g2, th, jz, collision, cosphi, priv_G1, C2, C3>>
  /\ UNCHANGED <<cfgvars, resets, der, mode, nflips, elapsed, localvars, out>>

\* The root solve converged: ehatvec is a unit vector.
Converged == {[success |-> TRUE, x |-> EccScale]}
\* The root solve did not converge: x is the last iterate, of any norm.
NotConverged ==
  {[success |-> FALSE, x |-> n] : n \in {EccScale \div 2, EccScale}}

\* ------------------------------------------------------------ driver step
\* Triple.update: the derived fields.  self.a1 is recomputed from self._a1,
\* which _step never assigns, and self.t from self._t.
Triple_update_a1 == Some(priv_a1 \div au)
Triple_update_t(pt) == pt \div yr2s

\* Triple.update after _step has read the solver's y back: calc_C,
\* calc_cosphi, calc_G1 and calc_th in this order (calc_th gives the th that
\* the solver's H implies), then self.a1 and self.t.
Triple_update(o) ==
  /\ C2' = calc_C2(priv_a1) /\ C3' = calc_C3(priv_a1)
  /\ cosphi' = calc_cosphi(g1', g2', th)
  /\ priv_G1' = calc_G1(priv_a1, e1')
  /\ th' = o.y.th
  /\ a1' = Triple_update_a1
  /\ t' = Triple_update_t(priv_t')

\* Triple._step with solver outcome o = [dt, y, ok]: the solver advances its
\* own time and state, then the fields are read back, the angles are wrapped
\* and update() runs.
Triple_step(o) ==
  /\ sol' = [t |-> sol.t + o.dt, y |-> o.y, ok |-> o.ok]
  /\ nstep' = nstep + 1
  /\ priv_t' = sol'.t
  /\ e1' = o.y.e1
  /\ g1' = PyMod(o.y.g1, TwoPi)
  /\ g2' = PyMod(o.y.g2, TwoPi)
  /\ Triple_update(o)
  /\ samples' = Append(samples, [t |-> t', e |-> e1', s |-> Sign(th')])
  /\ UNCHANGED <<jz, Th, CKL>>

\* Triple_vector.update: calc_Th and calc_CKL run on the fields as they are,
\* then self.t from self._t, and last self.e1 = |evec|.
Vector_update_t(pt) == pt * tsec
Vector_update(o) ==
  /\ Th' = calc_Th(e1, th)
  /\ CKL' = calc_CKL(e1, th, g1)
  /\ t' = Vector_update_t(priv_t')
  /\ e1' = o.y.e

\* Triple_vector._step with solver outcome o = [dt, y, ok].
Vector_step(o) ==
  /\ sol' = [t |-> sol.t + o.dt, y |-> o.y, ok |-> o.ok]
  /\ nstep' = nstep + 1
  /\ priv_t' = sol'.t
  /\ jz' = o.y.jz
  /\ Vector_update(o)
  /\ samples' = Append(samples, [t |-> t', e |-> e1', s |-> Sign(jz')])
  /\ UNCHANGED <<g1, g2, th, a1, cosphi, priv_G1, C2, C3>>

\* ------------------------------------------------------------ name lookup
\* The names bound at module level in triplesec.py and ts_vector.py (the
\* imports, the star import of ts_constants as far as the source uses it,
\* and the definitions), and the locals of the two printflips.
Triple_globals == {"argparse", "json", "random", "sys", "time", "sqrt", "cos",
                   "sin", "pi", "acos", "np", "ode", "quad", "root", "fsolve",
                   "G", "c", "M_sun", "au", "yr2s", "Triple",
                   "process_command_line", "main"}
Vector_globals == {"argparse", "sys", "time", "sin", "cos", "np", "ode",
                   "quad", "root", "fsolve", "Triple_vector", "_evec_root",
                   "process_command_line", "main"}
Triple_printflips_locals == {"self", "t_prev", "e_prev", "e_prev2",
                             "sign_prev", "outstring"}
Vector_printflips_locals == {"self", "t_prev", "e_prev", "e_prev2",
                             "sign_prev", "e", "outstring"}
\* Reading a name bound neither locally nor at module level raises NameError.
Bound(name, locals, globals) == name \in locals \cup globals

\* self.outfile.close(): AttributeError when the attribute was never set.
CanClose == outfile # "unset"

\* ------------------------------------------------------- loop conditions
\* self.t < self.tstop
BeforeTstop == t < tstop
\* time.time() - self.tstart < self.cputstop
BeforeCputstop == elapsed < cputstop

\* a call starts on a constructed object
Call(m, mdl) ==
  /\ pc = "ready" /\ model = mdl
  /\ mode' = m /\ pc' = "loop" /\ elapsed' = 0
  /\ UNCHANGED <<cfgvars, aux, objvars, samples, err, retval>>

\* the time one driver step takes on the wall clock
Tick(k) == elapsed' = elapsed + k

\* -------------------------------------------------------- Triple.integrate
\* self.a1 * (1 - self.e1) < self.r1 + self.r2, on the fields as they are.
Triple_collides(a, e) == Val(a) * (EccScale - e) < (r1 + r2) * EccScale

\* every step is an output step
EveryStep(n) == TRUE
\* if self.nstep % self.outfreq == 0
IsOutputStep(n) == n % outfreq = 0

Triple_integrate_call ==
  /\ Call("integrate", "massive")
  /\ out' = Append(out, StateRecord(t, e1))
  /\ UNCHANGED <<nflips, t_prev, e_prev, e_prev2, sign_prev, flip_count,
                 fliptime_prev, periods>>

Triple_integrate_iter(O) ==
  /\ pc = "loop" /\ mode = "integrate" /\ model = "massive"
  /\ BeforeTstop /\ BeforeCputstop
  /\ \E o \in O :
       /\ Triple_step(o)
       /\ Tick(o.k)
  /\ out' = IF IsOutputStep(nstep')
            THEN Append(out, StateRecord(t', e1')) ELSE out
  /\ IF Triple_collides(a1', e1')
     THEN collision' = TRUE /\ pc' = "break"
     ELSE UNCHANGED <<collision, pc>>
  /\ UNCHANGED <<cfgvars, aux>>
  /\ UNCHANGED <<a2, e2, priv_a1, outfile, mode, err, nflips,
                 localvars>>

Triple_integrate_exit ==
  /\ mode = "integrate" /\ model = "massive"
  /\ pc \in {"loop", "break"}
  /\ pc = "loop" => ~(BeforeTstop /\ BeforeCputstop)
  /\ out' = Append(out, StateRecord(t, e1))
  /\ outfile' = IF outfilename # None THEN "closed" ELSE outfile
  /\ pc' = "returned"
  /\ UNCHANGED <<cfgvars, aux, derived>>
  /\ UNCHANGED <<a1, a2, e2, priv_a1, e1, g1, g2, th, jz, t,
                 priv_t, nstep, collision, sol, samples, mode, err, nflips,
                 elapsed, localvars>>

\* ------------------------------------------------- Triple_vector.integrate
Vector_integrate_call ==
  /\ Call("integrate", "vector")
  /\ out' = Append(out, StateRecord(t, e1))
  /\ UNCHANGED <<nflips, t_prev, e_prev, e_prev2, sign_prev, flip_count,
                 fliptime_prev, periods>>

Vector_integrate_iter(O) ==
  /\ pc = "loop" /\ mode = "integrate" /\ model = "vector"
  /\ BeforeTstop /\ BeforeCputstop
  /\ \E o \in O :
       /\ Vector_step(o)
       /\ Tick(o.k)
  /\ out' = IF IsOutputStep(nstep')
            THEN Append(out, StateRecord(t', e1')) ELSE out
  /\ UNCHANGED <<cfgvars, aux>>
  /\ UNCHANGED <<a2, e2, priv_a1, collision, outfile, mode, pc, err,
                 nflips, localvars>>

Vector_integrate_exit ==
  /\ pc = "loop" /\ mode = "integrate" /\ model = "vector"
  /\ ~(BeforeTstop /\ BeforeCputstop)
  /\ out' = Append(out, StateRecord(t, e1))
  /\ outfile' = IF outfilename # None THEN "closed" ELSE outfile
  /\ pc' = "returned"
  /\ UNCHANGED <<cfgvars, aux, derived>>
  /\ UNCHANGED <<a1, a2, e2, priv_a1, e1, g1, g2, th, jz, t,
                 priv_t, nstep, collision, sol, samples, mode, err, nflips,
                 elapsed, localvars>>

\* ------------------------------------------------------------ ecc_extrema
\* t_prev = 0; e_prev = 0; e_prev2 = 0
ResetWindow == t_prev' = 0 /\ e_prev' = 0 /\ e_prev2' = 0

\* if e_prev2 < e_prev > e: write "t_prev e_prev"
EmitIfMax(e) ==
  out' = IF IsMax(e_prev2, e_prev, e)
         THEN Append(out, EventRecord(t_prev, e_prev)) ELSE out

\* t_prev = self.t; e_prev2 = e_prev; e_prev = e
ShiftWindow(e) == t_prev' = t' /\ e_prev2' = e_prev /\ e_prev' = e

\* Triple.ecc_extrema: the loop watches tstop and cputstop; nothing follows
\* the loop.
Triple_ecc_extrema_call ==
  /\ Call("ecc_extrema", "massive")
  /\ ResetWindow
  /\ UNCHANGED <<nflips, sign_prev, flip_count, fliptime_prev, periods, out>>

Triple_ecc_extrema_iter(O) ==
  /\ pc = "loop" /\ mode = "ecc_extrema" /\ model = "massive"
  /\ BeforeTstop /\ BeforeCputstop
  /\ \E o \in O :
       /\ Triple_step(o)
       /\ Tick(o.k)
  /\ EmitIfMax(e1')
  /\ ShiftWindow(e1')
  /\ UNCHANGED <<cfgvars, aux>>
  /\ UNCHANGED <<a2, e2, priv_a1, collision, outfile, mode, pc, err,
                 nflips, sign_prev, flip_count, fliptime_prev, periods,
                 retval>>

Triple_ecc_extrema_exit ==
  /\ pc = "loop" /\ mode = "ecc_extrema" /\ model = "massive"
  /\ ~(BeforeTstop /\ BeforeCputstop)
  /\ pc' = "returned"
  /\ UNCHANGED <<cfgvars, aux, objvars, samples, mode, err, nflips, elapsed,
                 localvars, out>>

\* Triple_vector.ecc_extrema: the loop watches tstop only; the file is
\* closed after the loop when one was named.
Vector_ecc_extrema_call ==
  /\ Call("ecc_extrema", "vector")
  /\ ResetWindow
  /\ UNCHANGED <<nflips, sign_prev, flip_count, fliptime_prev, periods, out>>

Vector_ecc_extrema_iter(O) ==
  /\ pc = "loop" /\ mode = "ecc_extrema" /\ model = "vector"
  /\ BeforeTstop
  /\ \E o \in O :
       /\ Vector_step(o)
       /\ Tick(o.k)
  /\ EmitIfMax(e1')
  /\ ShiftWindow(e1')
  /\ UNCHANGED <<cfgvars, aux>>
  /\ UNCHANGED <<a2, e2, priv_a1, collision, outfile, mode, pc, err,
                 nflips, sign_prev, flip_count, fliptime_prev, periods,
                 retval>>

Vector_ecc_extrema_exit ==
  /\ pc = "loop" /\ mode = "ecc_extrema" /\ model = "vector"
  /\ ~BeforeTstop
  /\ outfile' = IF outfilename # None THEN "closed" ELSE outfile
  /\ pc' = "returned"
  /\ UNCHANGED <<cfgvars, aux, derived>>
  /\ UNCHANGED <<a1, a2, e2, priv_a1, e1, g1, g2, th, jz, t,
                 priv_t, nstep, collision, sol, samples, mode, err, nflips,
                 elapsed, localvars, out>>

\* -------------------------------------------------------------- printflips
\* if e_prev2 < e_prev > e:
\*   if np.sign(s) != sign_prev: write "t_prev e_prev"
\*   sign_prev = np.sign(s)
\* with s the field as it is after the step just taken.
EmitIfFlip(e, s) ==
  /\ out' = IF IsMax(e_prev2, e_prev, e) /\ Sign(s) # sign_prev
            THEN Append(out, EventRecord(t_prev, e_prev)) ELSE out
  /\ sign_prev' = IF IsMax(e_prev2, e_prev, e) THEN Sign(s) ELSE sign_prev

\* self.outfile.close() after the loop, whether or not a file was named.
CloseUnguarded ==
  IF CanClose
  THEN outfile' = "closed" /\ pc' = "returned" /\ UNCHANGED err
  ELSE pc' = "raised" /\ err' = "AttributeError" /\ UNCHANGED outfile

\* Triple.printflips: the loop watches tstop only.  The last statement of
\* the loop body is e_prev = e.
Triple_printflips_call ==
  /\ Call("printflips", "massive")
  /\ ResetWindow
  /\ sign_prev' = Sign(th)
  /\ UNCHANGED <<nflips, flip_count, fliptime_prev, periods, out>>

Triple_printflips_iter(O) ==
  /\ pc = "loop" /\ mode = "printflips" /\ model = "massive"
  /\ BeforeTstop
  /\ \E o \in O :
       /\ Triple_step(o)
       /\ Tick(o.k)
  /\ EmitIfFlip(e1', th')
  /\ t_prev' = t' /\ e_prev2' = e_prev
  /\ IF Bound("e", Triple_printflips_locals, Triple_globals)
     THEN e_prev' = e1' /\ UNCHANGED <<pc, err>>
     ELSE pc' = "raised" /\ err' = "NameError" /\ UNCHANGED e_prev
  /\ UNCHANGED <<cfgvars, aux>>
  /\ UNCHANGED <<a2, e2, priv_a1, collision, outfile, mode, nflips,
                 flip_count, fliptime_prev, periods, retval>>

Triple_printflips_exit ==
  /\ pc = "loop" /\ mode = "printflips" /\ model = "massive"
  /\ ~BeforeTstop
  /\ CloseUnguarded
  /\ UNCHANGED <<cfgvars, aux, derived>>
  /\ UNCHANGED <<a1, a2, e2, priv_a1, e1, g1, g2, th, jz, t,
                 priv_t, nstep, collision, sol, samples, mode, nflips,
                 elapsed, localvars, out>>

\* Triple_vector.printflips: e = |evec| is a local of the loop body.
Vector_printflips_call ==
  /\ Call("printflips", "vector")
  /\ ResetWindow
  /\ sign_prev' = Sign(jz)
  /\ UNCHANGED <<nflips, flip_count, fliptime_prev, periods, out>>

Vector_printflips_iter(O) ==
  /\ pc = "loop" /\ mode = "printflips" /\ model = "vector"
  /\ BeforeTstop
  /\ \E o \in O :
       /\ Vector_step(o)
       /\ Tick(o.k)
  /\ EmitIfFlip(e1', jz')
  /\ t_prev' = t' /\ e_prev2' = e_prev
  /\ IF Bound("e", Vector_printflips_locals, Vector_globals)
     THEN e_prev' = e1' /\ UNCHANGED <<pc, err>>
     ELSE pc' = "raised" /\ err' = "NameError" /\ UNCHANGED e_prev
  /\ UNCHANGED <<cfgvars, aux>>
  /\ UNCHANGED <<a2, e2, priv_a1, collision, outfile, mode, nflips,
                 flip_count, fliptime_prev, periods, retval>>

Vector_printflips_exit ==
  /\ pc = "loop" /\ mode = "printflips" /\ model = "vector"
  /\ ~BeforeTstop
  /\ CloseUnguarded
  /\ UNCHANGED <<cfgvars, aux, derived>>
  /\ UNCHANGED <<a1, a2, e2, priv_a1, e1, g1, g2, th, jz, t,
                 priv_t, nstep, collision, sol, samples, mode, nflips,
                 elapsed, localvars, out>>

\* ------------------------------------------------- flip_times, flip_period
\* Neither loop watches tstop or cputstop.
Vector_flip_times_call(N) ==
  /\ Call("flip_times", "vector")
  /\ nflips' \in N
  /\ sign_prev' = Sign(jz)
  /\ flip_count' = 0
  /\ UNCHANGED <<t_prev, e_prev, e_prev2, fliptime_prev, periods, out>>

Vector_flip_times_iter(O) ==
  /\ pc = "loop" /\ mode = "flip_times" /\ model = "vector"
  /\ flip_count < nflips
  /\ nstep < MaxSteps
  /\ \E o \in O :
       /\ Vector_step(o)
       /\ Tick(o.k)
  /\ IF Sign(jz') # sign_prev
     THEN /\ flip_count' = flip_count + 1
          /\ out' = Append(out, StateRecord(t', e1'))
     ELSE UNCHANGED <<flip_count, out>>
  /\ sign_prev' = Sign(jz')
  /\ UNCHANGED <<cfgvars, aux>>
  /\ UNCHANGED <<a2, e2, priv_a1, collision, outfile, mode, pc, err,
                 nflips, t_prev, e_prev, e_prev2, fliptime_prev, periods,
                 retval>>

Vector_flip_times_exit ==
  /\ pc = "loop" /\ mode = "flip_times" /\ model = "vector"
  /\ ~(flip_count < nflips)
  /\ pc' = "returned"
  /\ UNCHANGED <<cfgvars, aux, objvars, samples, mode, err, nflips, elapsed,
                 localvars, out>>

RECURSIVE SumSeq(_)
SumSeq(q) == IF q = <<>> THEN 0 ELSE Head(q) + SumSeq(Tail(q))

\* np.mean(periods), kept as the exact fraction sum / n.
Mean(q) == [sum |-> SumSeq(q), n |-> Len(q)]

\* The first flip of the call has no flip before it.
EveryFlipHasPrev(ft) == TRUE
\* if fliptime_prev != 0
HasPrevFlip(ft) == ft # 0

Vector_flip_period_call(N) ==
  /\ Call("flip_period", "vector")
  /\ nflips' \in N
  /\ sign_prev' = Sign(jz)
  /\ flip_count' = 0
  /\ fliptime_prev' = 0
  /\ periods' = <<>>
  /\ UNCHANGED <<t_prev, e_prev, e_prev2, out>>

Vector_flip_period_iter(O) ==
  /\ pc = "loop" /\ mode = "flip_period" /\ model = "vector"
  /\ Len(periods) < nflips
  /\ nstep < MaxSteps
  /\ \E o \in O :
       /\ Vector_step(o)
       /\ Tick(o.k)
  /\ IF Sign(jz') # sign_prev
     THEN /\ periods' = IF HasPrevFlip(fliptime_prev)
                        THEN Append(periods, t' - fliptime_prev)
                        ELSE periods
          /\ fliptime_prev' = t'
     ELSE UNCHANGED <<periods, fliptime_prev>>
  /\ sign_prev' = Sign(jz')
  /\ UNCHANGED <<cfgvars, aux>>
  /\ UNCHANGED <<a2, e2, priv_a1, collision, outfile, mode, pc, err,
                 nflips, t_prev, e_prev, e_prev2, flip_count, retval, out>>

Vector_flip_period_exit ==
  /\ pc = "loop" /\ mode = "flip_period" /\ model = "vector"
  /\ ~(Len(periods) < nflips)
  /\ retval' = Some(Mean(periods))
  /\ pc' = "returned"
  /\ UNCHANGED <<cfgvars, aux, objvars, samples, mode, err, nflips, elapsed,
                 t_prev, e_prev, e_prev2, sign_prev, flip_count,
                 fliptime_prev, periods, out>>

\* ----------------------------------------------------- Triple_vector._deriv
\* np.cross, np.dot and the sum of two 3-vectors
Cross(a, b) ==
  <<a[2] * b[3] - a[3] * b[2], a[3] * b[1] - a[1] * b[3],
    a[1] * b[2] - a[2] * b[1]>>
Dot(a, b) == a[1] * b[1] + a[2] * b[2] + a[3] * b[3]
VAdd(a, b) == <<a[1] + b[1], a[2] + b[2], a[3] + b[3]>>
VScale(k, a) == <<k * a[1], k * a[2], k * a[3]>>
Zero3 == <<0, 0, 0>>

\* y[:3] and y[3:]
jvec(y) == <<y[1], y[2], y[3]>>
evec(y) == <<y[4], y[5], y[6]>>

\* The gradients of phi, all multiplied by 320 so that the coefficients
\* 3/4, 75/32, 3/2, 9/4, 75/64, 1/5, 8/5, 15/4 and 54/5 are whole numbers.
grad_j_phi_q(y) == <<0, 0, 240 * y[3]>>
grad_j_phi_oct(y) ==
  VScale(0 - 750, <<y[6] * y[3], 0, y[4] * y[3] + y[6] * y[1]>>)
grad_e_phi_q(y) == <<480 * y[4], 480 * y[5], 0 - 720 * y[6]>>
grad_e_phi_oct(y) ==
  <<75 - 600 * Dot(evec(y), evec(y)) + 2625 * y[6] * y[6]
       - 375 * y[3] * y[3] - 1200 * y[4] * y[4],
    0 - 1200 * y[4] * y[5],
    4050 * y[4] * y[6] - 750 * y[1] * y[3]>>

\* de/dtau with both cross products taken with j
dedtau_jj(j, e, gj, ge) == VAdd(Cross(j, ge), Cross(j, gj))
\* djdtau = j x grad_j_phi + e x grad_e_phi
djdtau(j, e, gj, ge) == VAdd(Cross(j, gj), Cross(e, ge))
\* dedtau = j x grad_e_phi + e x grad_j_phi
dedtau(j, e, gj, ge) == VAdd(Cross(j, ge), Cross(e, gj))

\* The derivative for quadrupole strength q and octupole strength eps.
DerivWith(y, q, eps) ==
  LET gj == VAdd(VScale(q, grad_j_phi_q(y)), VScale(eps, grad_j_phi_oct(y)))
      ge == VAdd(VScale(q, grad_e_phi_q(y)), VScale(eps, grad_e_phi_oct(y)))
  IN  [dj |-> djdtau(jvec(y), evec(y), gj, ge),
       de |-> dedtau(jvec(y), evec(y), gj, ge)]

\* Triple_vector._deriv(t, y, epsoct):
\* grad_phi = grad_phi_q + epsoct * grad_phi_oct, whatever the flags.
Vector_deriv(y, eps) == DerivWith(y, 1, eps)

\* The solver calls _deriv on a constructed object.
Vector_deriv_call ==
  /\ pc = "ready" /\ model = "vector" /\ der = None
  /\ der' = Some(Vector_deriv(args.y, args.epsoct))
  /\ UNCHANGED <<cfgvars, objvars, runvars, ehatvec_sol, snap, resets,
                 samples>>

\* ------------------------------------------------------------ Triple._deriv
\* The mass m3 of the massive model's constructor call.
m3 == 1

\* 1 - e**2, with e in units of 1/EccScale.
OneMinusSq(e) == EccScale * EccScale - e * e

\* A division is followed through its divisor, and a divisor through its
\* factors: the product is zero exactly when one factor is.  The solver hands
\* _deriv a numpy array, so a zero divisor leaves inf or nan in the component
\* (with a RuntimeWarning); on Python floats the same division raises
\* ZeroDivisionError.  Either way the component is "divzero".
\*
\* One "if self.<flag>: d += ..." term: absent when the flag is off.
Term(flag, factors) ==
  IF ~flag THEN "absent" ELSE IF 0 \in factors THEN "divzero" ELSE "value"

\* d = 0, then the terms are added: any term that divided by zero spoils the
\* sum.
SumOf(terms) == IF "divzero" \in terms THEN "divzero" ELSE "value"

\* The factors of G1 = m1 m2 sqrt(G a1 (1 - e1**2) / (m1 + m2)) and of
\* G2 = (m1 + m2) m3 sqrt(G a2 (1 - e2**2) / (m1 + m2 + m3)).
G1_factors(y) == {m1, m2, y.a1, OneMinusSq(y.e1)}
G2_factors(y) == {m1 + m2, m3, y.a2, OneMinusSq(y.e2)}

\* G1**2 and G2**2 over the common factor G / ((m1 + m2) (m1 + m2 + m3)).
G1_squared(y) == m1 * m1 * m2 * m2 * y.a1 * OneMinusSq(y.e1) * (m1 + m2 + m3)
G2_squared(y) ==
  (m1 + m2) * (m1 + m2) * (m1 + m2) * m3 * m3 * y.a2 * OneMinusSq(y.e2)

\* The component H of y, as zero or not: with th = +-1,
\* H**2 = 2 G1 G2 th + G1**2 + G2**2 = (G1 + th G2)**2.
H_of(y) == IF y.th < 0 /\ G1_squared(y) = G2_squared(y) THEN 0 ELSE 1

\* The statements before the equations: G1, G2, C2, C3 and th are computed
\* whatever the flags.  Their divisors are m1 + m2, m1 + m2 + m3,
\* 16 (m1 + m2) a2 (1 - e2**2)**(3/2), a2,
\* 64 (m1 + m2)**2 a2 (1 - e2**2)**(5/2) and 2 G1 G2.
deriv_preamble(y) ==
  Term(TRUE, {m1 + m2, m1 + m2 + m3, y.a2, OneMinusSq(y.e2)}
             \cup G1_factors(y) \cup G2_factors(y))

\* Eq. 11: the gr term divides by 5 c**5 a1**3 sqrt((1 - e1**2)**7).
da1dt(y) == SumOf({deriv_preamble(y), Term(gr, {y.a1, OneMinusSq(y.e1)})})

\* Eq. 12.  quadrupole: 1 / G1 and th / G2.  octupole: 1 / G2, th / G1 and
\* C3 e2 (1 - e1**2) / (e1 G1).  gr: c**2 a1 (1 - e1**2) and a1.
dg1dt_quadrupole(y) == Term(quadrupole, G1_factors(y) \cup G2_factors(y))
dg1dt_octupole(y) ==
  Term(Triple_octupole, G2_factors(y) \cup G1_factors(y) \cup {y.e1})
dg1dt_gr(y) == Term(gr, {y.a1, OneMinusSq(y.e1)})
\* hexadecapole: 4096 a2**5 sqrt(1 - e1**2) (m1 + m2)**5,
\* (e2**2 - 1)**4 sqrt(a2 G (m1 + m2 + m3)) and e1 sqrt((1 - e2**2)**7).
dg1dt_hexadecapole(y) ==
  Term(hexadecapole, {y.a2, OneMinusSq(y.e1), m1 + m2, OneMinusSq(y.e2),
                      m1 + m2 + m3, y.e1})
dg1dt(y) ==
  SumOf({deriv_preamble(y), dg1dt_quadrupole(y), dg1dt_octupole(y),
         dg1dt_gr(y), dg1dt_hexadecapole(y)})

\* Eq. 13.  quadrupole and octupole: / G1.
\* gr: 15 c**4 a1**4 sqrt((1 - e1**2)**5).
\* hexadecapole: 2048 a2**5 sqrt((1 - e2**2)**7) (m1 + m2)**3.
de1dt(y) ==
  SumOf({deriv_preamble(y),
         Term(quadrupole, G1_factors(y)),
         Term(Triple_octupole, G1_factors(y)),
         Term(gr, {y.a1, OneMinusSq(y.e1)}),
         Term(hexadecapole, {y.a2, OneMinusSq(y.e2), m1 + m2})})

\* dg2dt.  quadrupole: 2 th / G1 and 1 / G2.  octupole:
\* (4 e2**2 + 1) / (e2 G2), 1 / G1 and th / G2.
dg2dt_quadrupole(y) == Term(quadrupole, G1_factors(y) \cup G2_factors(y))
dg2dt_octupole(y) ==
  Term(Triple_octupole, {y.e2} \cup G2_factors(y) \cup G1_factors(y))
\* hexadecapole: sqrt(1 - e1**2) and
\* 8192 a2**6 (-1 + e2**2)**4 (m1 + m2)**5 sqrt(a2 G (m1 + m2 + m3)).
dg2dt_hexadecapole(y) ==
  Term(hexadecapole, {OneMinusSq(y.e1), y.a2, OneMinusSq(y.e2), m1 + m2,
                      m1 + m2 + m3})
dg2dt(y) ==
  SumOf({deriv_preamble(y), dg2dt_quadrupole(y), dg2dt_octupole(y),
         dg2dt_hexadecapole(y)})

\* Eq. 16.  octupole: / G2.
\* hexadecapole: 4096 a2**6 (-1 + e2**2)**3 (m1 + m2)**4.
de2dt(y) ==
  SumOf({deriv_preamble(y),
         Term(Triple_octupole, G2_factors(y)),
         Term(hexadecapole, {y.a2, OneMinusSq(y.e2), m1 + m2})})

\* Eq. 17.  gr: 5 c**5 a1**3 (1 - e1**2)**2, a1 and H.
dHdt(y) ==
  SumOf({deriv_preamble(y), Term(gr, {y.a1, OneMinusSq(y.e1), H_of(y)})})

\* Triple._deriv(t, y): der = [da1dt, de1dt, dg1dt, de2dt, dg2dt, dHdt].
Triple_deriv(y) ==
  [da1dt |-> da1dt(y), de1dt |-> de1dt(y), dg1dt |-> dg1dt(y),
   de2dt |-> de2dt(y), dg2dt |-> dg2dt(y), dHdt |-> dHdt(y)]

\* The solver's state y = [a1, e1, g1, e2, g2, H] of the massive model, with
\* self._a2, which _deriv reads beside it.  The model's steps leave e2 where
\* the constructor put it, and keep th for H.
Triple_y ==
  [a1 |-> sol.y.a1, e1 |-> sol.y.e1, e2 |-> Val(e2), th |-> sol.y.th,
   a2 |-> Val(a2) * au]

\* The solver calls _deriv on a constructed object, at its current state.
Triple_deriv_call ==
  /\ pc = "ready" /\ model = "massive" /\ der = None
  /\ der' = Some(Triple_deriv(Triple_y))
  /\ UNCHANGED <<cfgvars, objvars, runvars, ehatvec_sol, snap, resets,
                 samples>>

\* ------------------------------------------------------ Triple_vector.reset
\* reset() is followed at most MaxResets times.
MaxResets == 1

\* Triple_vector.reset on an object at rest: the saved fields are copied
\* back, nstep and _t are zeroed and update() runs.  self.solver is not
\* touched.
Vector_reset ==
  /\ pc \in {"ready", "returned"} /\ model = "vector"
  /\ resets < MaxResets
  /\ resets' = resets + 1
  /\ e2' = snap.e2_0 /\ g1' = snap.g1_0 /\ jz' = snap.jz_0
  /\ nstep' = 0 /\ priv_t' = 0
  /\ Th' = calc_Th(snap.e1_0, th)
  /\ CKL' = calc_CKL(snap.e1_0, th, g1')
  /\ t' = Vector_update_t(priv_t')
  /\ e1' = snap.e1_0
  /\ samples' = <<[t |-> t', e |-> e1', s |-> Sign(jz')]>>
  /\ pc' = "ready"
  /\ UNCHANGED <<cfgvars, ehatvec_sol, snap, der, a1, a2, priv_a1, g2, th,
                 collision, outfile, sol, cosphi, priv_G1, C2, C3, mode, err,
                 nflips, elapsed, localvars, out>>

\* --------------------------------------------------------- solver outcomes
\* What one solver.integrate(tstop, step=True) can return, and the wall-clock
\* ticks k it took.  The solver's time advances by a positive amount; the
\* massive solver's time is in seconds (whole years here), the vector
\* solver's in units of tsec.
MassiveOutcomes(dts, ks, a1s, es, gs, ss) ==
  {[dt |-> d * yr2s, k |-> kk, ok |-> TRUE,
    y |-> [a1 |-> a, e1 |-> e, g1 |-> g[1], g2 |-> g[2], th |-> s]] :
     d \in dts, kk \in ks, a \in a1s, e \in es, g \in gs, s \in ss}

VectorOutcomes(dts, ks, es, ss) ==
  {[dt |-> d, k |-> kk, ok |-> TRUE, y |-> [jz |-> s, e |-> e]] :
     d \in dts, kk \in ks, e \in es, s \in ss}

Signs == {0 - 1, 1}

\* The solver reports failure (solver.successful() is false): it returns
\* without advancing its time, with some state vector, after one tick.
Failing(O) == {[o EXCEPT !.ok = FALSE, !.dt = 0, !.k = 1] : o \in O}

\* ------------------------------------------------------------------- Spec
\* Every mode of both models: termination, the wall clock, the output file.
CpuStops == {0 - 1, 1, 2}
Init ==
  /\ InitWith({"massive", "vector"}, {0, MaxT}, CpuStops, {1, 2},
           {None, Some("out.dat")}, {0, 1}, {0}, {None, Some(1)},
           {2}, {1}, {1})
  /\ DefaultFlags

\* Without the GR term the solver leaves a1 as it is.
DriverMassive ==
  MassiveOutcomes({1}, 0..MaxTick, {priv_a1}, {1, 6}, {<<1, 1>>}, Signs)
DriverVector == VectorOutcomes({1}, 0..MaxTick, {1, 6}, Signs)
NFlips == {1, 2}

Next ==
  \/ Triple_init
  \/ Vector_init(Converged)
  \/ Triple_integrate_call
  \/ Triple_integrate_iter(DriverMassive)
  \/ Triple_integrate_exit
  \/ Vector_integrate_call
  \/ Vector_integrate_iter(DriverVector)
  \/ Vector_integrate_exit
  \/ Triple_ecc_extrema_call
  \/ Triple_ecc_extrema_iter(DriverMassive)
  \/ Triple_ecc_extrema_exit
  \/ Vector_ecc_extrema_call
  \/ Vector_ecc_extrema_iter(DriverVector)
  \/ Vector_ecc_extrema_exit
  \/ Triple_printflips_call
  \/ Triple_printflips_iter(DriverMassive)
  \/ Triple_printflips_exit
  \/ Vector_printflips_call
  \/ Vector_printflips_iter(DriverVector)
  \/ Vector_printflips_exit
  \/ Vector_flip_times_call(NFlips)
  \/ Vector_flip_times_iter(DriverVector)
  \/ Vector_flip_times_exit
  \/ Vector_flip_period_call(NFlips)
  \/ Vector_flip_period_iter(DriverVector)
  \/ Vector_flip_period_exit

Spec == Init /\ [][Next]_vars

\* -------------------------------------------------------------- SpecFlips
\* flip_times and flip_period on every sequence of signs of j_z, zero
\* included, with steps of one or two units of the solver's time.
InitFlips ==
  /\ InitWith({"vector"}, {MaxT}, {MaxT}, {1}, {None}, {0}, {0}, {None}, {2},
              {1}, Signs)
  /\ DefaultFlags

FlipsVector == VectorOutcomes({1, 2}, {0}, {1}, {0 - 1, 0, 1})

NextFlips ==
  \/ Vector_init(Converged)
  \/ Vector_flip_times_call(NFlips)
  \/ Vector_flip_times_iter(FlipsVector)
  \/ Vector_flip_times_exit
  \/ Vector_flip_period_call(NFlips)
  \/ Vector_flip_period_iter(FlipsVector)
  \/ Vector_flip_period_exit

SpecFlips == InitFlips /\ [][NextFlips]_vars

\* -------------------------------------------------------------- SpecReset
\* The vector model constructed on a root solve that converged or not,
\* integrated, reset and integrated again.
InitReset ==
  /\ InitWith({"vector"}, {MaxT}, {MaxT}, {1}, {None}, {0}, {0}, {None}, {2},
              {2, 4}, Signs)
  /\ DefaultFlags

ResetVector == VectorOutcomes({1}, {0}, {1, 6}, Signs)

NextReset ==
  \/ Vector_init(Converged \cup NotConverged)
  \/ Vector_integrate_call
  \/ Vector_integrate_iter(ResetVector)
  \/ Vector_integrate_exit
  \/ Vector_reset

SpecReset == InitReset /\ [][NextReset]_vars

\* ------------------------------------------------------------- SpecOutput
\* integrate of both models for every output frequency, ended by the stop
\* time, by the wall clock or by a collision.
OutFreqs == {1, 2, 3}
InitOutput ==
  /\ InitWith({"massive", "vector"}, {MaxT}, {1, MaxT}, OutFreqs, {None},
              {0, 1}, {0}, {None}, {2}, {1}, {1})
  /\ DefaultFlags

OutputMassive ==
  MassiveOutcomes({1}, 0..MaxTick, {priv_a1}, {1, 6}, {<<0, 0>>}, {1})
OutputVector == VectorOutcomes({1}, 0..MaxTick, {1, 6}, {1})

NextOutput ==
  \/ Triple_init
  \/ Vector_init(Converged)
  \/ Triple_integrate_call
  \/ Triple_integrate_iter(OutputMassive)
  \/ Triple_integrate_exit
  \/ Vector_integrate_call
  \/ Vector_integrate_iter(OutputVector)
  \/ Vector_integrate_exit

SpecOutput == InitOutput /\ [][NextOutput]_vars

\* ---------------------------------------------------------- SpecIntegrate
\* integrate of both models with a solver that can fail, and, in the
\* massive model, with the GR term enabled: the solver's a1 stays or
\* shrinks by one au per step while it is above one au.
InitIntegrate ==
  /\ InitWith({"massive", "vector"}, {MaxT}, {2}, {1}, {None}, {0}, {0},
              {None}, {2}, {1}, Signs)
  /\ InitFlags({TRUE}, {TRUE}, {DefaultArgs})
  /\ InitTerms({FALSE}, {TRUE}, {Some(3)})

Inspiral == {sol.y.a1} \cup (IF sol.y.a1 > au THEN {sol.y.a1 - au} ELSE {})
IntegrateMassive ==
  MassiveOutcomes({1}, {0}, Inspiral, {1}, {<<1, 1>>}, Signs)
IntegrateVector == VectorOutcomes({1}, {0}, {1, 6}, Signs)

NextIntegrate ==
  \/ Triple_init
  \/ Vector_init(Converged)
  \/ Triple_integrate_call
  \/ Triple_integrate_iter(IntegrateMassive \cup Failing(IntegrateMassive))
  \/ Triple_integrate_exit
  \/ Vector_integrate_call
  \/ Vector_integrate_iter(IntegrateVector \cup Failing(IntegrateVector))
  \/ Vector_integrate_exit

SpecIntegrate == InitIntegrate /\ [][NextIntegrate]_vars

\* -------------------------------------------------------------- SpecDeriv
\* One call of the vector model's _deriv for every state vector with
\* components in Comp, every octupole strength in EpsOcts and every setting
\* of the quadrupole and octupole flags.
Comp == {0 - 2, 0 - 1, 0, 1, 2}
EpsOcts == {0, 1}
Vec6 == {<<a, b, c, d, e, f>> : a \in Comp, b \in Comp, c \in Comp,
                               d \in Comp, e \in Comp, f \in Comp}
InitDeriv ==
  /\ InitWith({"vector"}, {MaxT}, {MaxT}, {1}, {None}, {0}, {0}, {None}, {2},
              {1}, {1})
  /\ InitFlags(BOOLEAN, BOOLEAN,
               {[y |-> v, epsoct |-> k] : v \in Vec6, k \in EpsOcts})
  /\ DefaultTerms

NextDeriv ==
  \/ Vector_init(Converged)
  \/ Vector_deriv_call

SpecDeriv == InitDeriv /\ [][NextDeriv]_vars

\* ------------------------------------------------------------ SpecMassive
\* Triple.integrate with the solver free in e1, g1 and g2: the raw angles
\* take either sign and exceed one turn.
RawAngles == {0 - (AngleRes + 1), 0 - 1, 0, AngleRes, 2 * AngleRes + 1}
InitMassive ==
  /\ InitWith({"massive"}, {MaxT}, {MaxT}, {1}, {None}, {0, 1}, {0, 1}, {None},
           {2}, {1}, {1})
  /\ DefaultFlags

MassiveFree ==
  MassiveOutcomes({1}, {0}, {priv_a1}, {1, 6}, RawAngles \X RawAngles, {1})

NextMassive ==
  \/ Triple_init
  \/ Triple_integrate_call
  \/ Triple_integrate_iter(MassiveFree)
  \/ Triple_integrate_exit

SpecMassive == InitMassive /\ [][NextMassive]_vars

\* ------------------------------------------------------------- SpecEvents
\* ecc_extrema of both models and the vector model's printflips on every
\* eccentricity and sign sequence over EccLevels and Signs, for as many
\* driver steps as fit before EventT.
EventT == 8
EccLevels == {1, 2, 3, 4, 5}
InitEvents ==
  /\ InitWith({"massive", "vector"}, {EventT}, {EventT}, {1}, {None}, {0}, {0},
           {None}, {2}, EccLevels, Signs)
  /\ DefaultFlags

EventsMassive ==
  MassiveOutcomes({2}, {0}, {priv_a1}, EccLevels, {<<0, 0>>}, {1})
EventsVector == VectorOutcomes({1}, {0}, EccLevels, Signs)

NextEvents ==
  \/ Triple_init
  \/ Vector_init(Converged)
  \/ Triple_ecc_extrema_call
  \/ Triple_ecc_extrema_iter(EventsMassive)
  \/ Triple_ecc_extrema_exit
  \/ Vector_ecc_extrema_call
  \/ Vector_ecc_extrema_iter(EventsVector)
  \/ Vector_ecc_extrema_exit
  \/ Vector_printflips_call
  \/ Vector_printflips_iter(EventsVector)
  \/ Vector_printflips_exit

SpecEvents == InitEvents /\ [][NextEvents]_vars

\* -------------------------------------------------------- SpecMassiveDeriv
\* The massive model's derivative at the constructed state, for circular and
\* eccentric inner and outer orbits and every setting of the four flags.
InnerEccs == {0, 1, 5}
OuterEccs == {Some(0), Some(3)}
InitMassiveDeriv ==
  /\ InitWith({"massive"}, {MaxT}, {MaxT}, {1}, {None}, {0}, {0}, {None}, {2},
              InnerEccs, Signs)
  /\ InitFlags(BOOLEAN, BOOLEAN, {DefaultArgs})
  /\ InitTerms(BOOLEAN, BOOLEAN, OuterEccs)

NextMassiveDeriv ==
  \/ Triple_init
  \/ Triple_deriv_call

SpecMassiveDeriv == InitMassiveDeriv /\ [][NextMassiveDeriv]_vars

\* ================================================================== claims
IntegrationModes == {"integrate", "ecc_extrema", "printflips"}
Stepped == nstep' = nstep + 1

\* C1: in every mode of both models the loop compares the elapsed wall-clock
\* time with cputstop once per driver step, and no driver step is taken once
\* the elapsed time has reached cputstop (a budget is set: cputstop >= 0).
C1_NoStepPastCputstop ==
  [][(Stepped /\ cputstop >= 0) => elapsed < cputstop]_vars

\* C2: in every mode of both models no driver step is taken once the
\* physical time t has reached tstop.
C2_NoStepPastTstop == [][Stepped => t < tstop]_vars

\* C3: when an output file was named it is closed by the time integrate,
\* ecc_extrema or printflips returns; when none was named the call closes
\* nothing and raises no error on that account.
C3_FileClosedOnReturn ==
  mode \in IntegrationModes =>
    /\ (pc = "returned" /\ outfilename # None) => outfile = "closed"
    /\ outfilename = None => (outfile = "unset" /\ err # "AttributeError")

\* C4: with cputstop = -1 the wall-clock budget is unlimited: integrate
\* returns only when t has reached tstop or, in the massive model, on a
\* collision.
C4_UnlimitedBudget ==
  (mode = "integrate" /\ cputstop = 0 - 1 /\ pc = "returned")
    => (t >= tstop \/ collision)

\* C6: constructing either model with epsoct supplied succeeds and leaves
\* a1, a2 and e2 undefined.
C6_EpsoctConstructs ==
  (epsoct # None /\ pc # "init")
    => (pc # "raised" /\ a1 = None /\ a2 = None /\ e2 = None)

\* C10: the massive model's printflips takes its driver steps without
\* raising: after every driver step its window holds the eccentricity of the
\* step just taken in e_prev and the one before in e_prev2, and it returns
\* only once t has reached tstop.
C10_PrintflipsRuns ==
  (model = "massive" /\ mode = "printflips" /\ nstep > 0) =>
    /\ pc # "raised"
    /\ e_prev = e1
    /\ nstep > 1 => e_prev2 = samples[Len(samples) - 1].e
    /\ pc = "returned" => t >= tstop

\* C5: in the massive model's integrate the periastron separation of the
\* inner binary after a driver step, a1 (1 - e1) with the solver's current
\* a1, is compared with r1 + r2 in the same unit (solar radii here): the
\* run is ended with collision set by the first step after which the
\* separation is smaller, and collision stays false otherwise.
PeriastronBelowRadii ==
  sol.y.a1 * (EccScale - e1) < (r1 + r2) * EccScale
C5_CollisionIffContact ==
  (model = "massive" /\ mode = "integrate" /\ nstep > 0) =>
    /\ collision <=> PeriastronBelowRadii
    /\ collision => pc \in {"break", "returned"}

RECURSIVE MaximaFrom(_, _)
MaximaFrom(S, i) ==
  IF i >= Len(S) THEN <<>>
  ELSE (IF IsMax(S[i - 1].e, S[i].e, S[i + 1].e)
        THEN <<EventRecord(S[i].t, S[i].e)>> ELSE <<>>)
       \o MaximaFrom(S, i + 1)
Maxima(S) == MaximaFrom(S, 2)

\* C8: ecc_extrema (both models) has written the record (t, e) of sample
\* n-1 exactly for the samples with e_{n-2} < e_{n-1} > e_n, and nothing
\* else.
C8_ExtremaAreMaxima == mode = "ecc_extrema" => out = Maxima(samples)

\* The window of the loop at driver step n of a trajectory S (S[n + 1] is
\* the state after step n): the placeholders 0 stand in before the loop has
\* filled it.
WinPrev(S, n) == IF n >= 2 THEN S[n].e ELSE 0
WinPrev2(S, n) == IF n >= 3 THEN S[n - 1].e ELSE 0
Detected(S, n) == IsMax(WinPrev2(S, n), WinPrev(S, n), S[n + 1].e)

\* The records of the flips when the sign is taken at the maximum itself,
\* the sample S[n], and compared with the sign sp at the previous detected
\* maximum (before the first one: the initial sign).
RECURSIVE FlipsAtMaxima(_, _, _)
FlipsAtMaxima(S, n, sp) ==
  IF n >= Len(S) THEN <<>>
  ELSE IF Detected(S, n)
       THEN (IF S[n].s # sp THEN <<EventRecord(S[n].t, S[n].e)>> ELSE <<>>)
            \o FlipsAtMaxima(S, n + 1, S[n].s)
       ELSE FlipsAtMaxima(S, n + 1, sp)

\* C9: the vector model's printflips takes the sign of j_z at the detected
\* maxima (the sample n-1 that is the maximum) and has written a record for
\* a detected maximum exactly when that sign differs from the sign at the
\* previous detected maximum.
C9_FlipsAtMaxima ==
  (model = "vector" /\ mode = "printflips")
    => out = FlipsAtMaxima(samples, 1, samples[1].s)

\* The times of the flips of a trajectory S: the samples whose sign of j_z
\* differs from the sign of the sample before.
RECURSIVE FlipTimesFrom(_, _)
FlipTimesFrom(S, i) ==
  IF i > Len(S) THEN <<>>
  ELSE (IF S[i].s # S[i - 1].s THEN <<S[i].t>> ELSE <<>>)
       \o FlipTimesFrom(S, i + 1)
FlipTimes(S) == FlipTimesFrom(S, 2)
\* the differences of consecutive entries
Diffs(q) == [i \in 1..(Len(q) - 1) |-> q[i + 1] - q[i]]

\* C11: flip_period(nflips), nflips >= 1, returns the mean of exactly nflips
\* differences between the times of consecutive flips, and has seen exactly
\* nflips + 1 flips when it returns.
C11_FlipPeriodIsMean ==
  (mode = "flip_period" /\ pc = "returned") =>
    /\ Len(FlipTimes(samples)) = nflips + 1
    /\ retval = Some([sum |-> SumSeq(Diffs(FlipTimes(samples))), n |-> nflips])
\* two periods returned after a run with a step through j_z = 0 and a step
\* without a flip
C11_Witness ==
  /\ mode = "flip_period" /\ pc = "returned" /\ nflips = 2
  /\ \E i \in 2..Len(samples) : samples[i].s = 0
  /\ \E i \in 2..Len(samples) : samples[i].s = samples[i - 1].s
  /\ Val(retval).sum > 2 * tsec

\* C12: when the root solve of the vector model's constructor has not
\* converged, the constructor raises: no object is left ready and no driver
\* step is taken on it.
C12_RootFailureAborts ==
  (model = "vector" /\ ehatvec_sol # None /\ ~ehatvec_sol.success)
    => (pc = "raised" /\ nstep = 0)

\* C14: a term disabled by its flag contributes nothing to the vector
\* model's derivative: with octupole=False the derivative is that of zero
\* octupole strength, with quadrupole=False it has no quadrupole part.
C14_DisabledTermsVanish ==
  (model = "vector" /\ der # None) =>
    Val(der) = DerivWith(args.y, IF quadrupole THEN 1 ELSE 0,
                         IF octupole THEN args.epsoct ELSE 0)

\* C15: for every state (j, e) and every epsoct the vector model's
\* derivative satisfies j . de/dtau + e . dj/dtau = 0.
C15_OrthogonalityKept ==
  (model = "vector" /\ der # None) =>
    Dot(jvec(args.y), Val(der).de) + Dot(evec(args.y), Val(der).dj) = 0
\* the derivative of an orthogonal pair j, e, neither zero, at nonzero
\* octupole strength, with both dj/dtau and de/dtau nonzero
C15_Witness ==
  /\ model = "vector" /\ der # None /\ args.epsoct > 0
  /\ jvec(args.y) # Zero3 /\ evec(args.y) # Zero3
  /\ Dot(jvec(args.y), evec(args.y)) = 0
  /\ Val(der).dj # Zero3 /\ Val(der).de # Zero3

\* C16: after reset() the whole integration state is that of construction:
\* the time, the step counter, j and e, and the solver's own time and state
\* vector.
C16_ResetRestoresAll ==
  (model = "vector" /\ resets > 0 /\ nstep = 0) =>
    /\ t = 0 /\ priv_t = 0
    /\ e1 = snap.e1_0 /\ jz = snap.jz_0
    /\ sol.t = 0 /\ sol.y = [jz |-> snap.jz_0, e |-> snap.e1_0]

\* C13: a driver step on which the solver reports failure raises: the
\* fields keep the values they had before the step, and no driver step is
\* taken after a failure.
C13_SolverFailureSurfaces ==
  [][/\ (Stepped /\ ~sol'.ok) =>
         (pc' = "raised" /\ e1' = e1 /\ jz' = jz /\ th' = th /\ t' = t)
     /\ Stepped => sol.ok]_vars

\* C17: after every successful driver step of the massive model the reported
\* a1 is the solver's current a1 in AU, and G1, C2 and C3 are those of the
\* solver's current a1.
C17_A1IsCurrent ==
  (model = "massive" /\ nstep > 0 /\ sol.ok) =>
    /\ a1 = Some(sol.y.a1 \div au)
    /\ priv_G1 = calc_G1(sol.y.a1, e1)
    /\ C2 = calc_C2(sol.y.a1) /\ C3 = calc_C3(sol.y.a1)

\* cos of the current inclination of the vector model, j_z / |j|, on the
\* grid of cos(inc) (the orbits coplanar, prograde or retrograde)
CosInc == Sign(jz)

\* C18: after every driver step the derived fields are those of the state
\* the step produced: Th and CKL of the vector model use the current e1 and
\* inclination, cosphi of the massive model the current cos i.
C18_DerivedAreCurrent ==
  (nstep > 0 /\ sol.ok) =>
    /\ model = "vector" =>
         (Th = calc_Th(e1, CosInc) /\ CKL = calc_CKL(e1, CosInc, g1))
    /\ model = "massive" => cosphi = calc_cosphi(g1, g2, th)

\* The per-step records of a trajectory S at output frequency f: the state
\* after step i for every i that is a multiple of f.
RECURSIVE StepRecords(_, _, _)
StepRecords(S, i, f) ==
  IF i > Len(S) - 1 THEN <<>>
  ELSE (IF i % f = 0 THEN <<StateRecord(S[i + 1].t, S[i + 1].e)>> ELSE <<>>)
       \o StepRecords(S, i + 1, f)
InitialRecord(S) == StateRecord(S[1].t, S[1].e)
FinalRecord(S) == StateRecord(S[Len(S)].t, S[Len(S)].e)

\* C19: integrate writes the initial state, then the state after each step
\* whose number is a multiple of outfreq, then the final state:
\* floor(N / outfreq) + 2 records for N steps, in non-decreasing time order.
C19_OutputCadence ==
  (mode = "integrate" /\ pc \in {"loop", "break", "returned"}) =>
    /\ pc # "returned" =>
         out = <<InitialRecord(samples)>> \o StepRecords(samples, 1, outfreq)
    /\ pc = "returned" =>
         /\ out = <<InitialRecord(samples)>>
                     \o StepRecords(samples, 1, outfreq)
                     \o <<FinalRecord(samples)>>
         /\ Len(out) = (nstep \div outfreq) + 2
    /\ \A i \in 1..(Len(out) - 1) : out[i].t <= out[i + 1].t
\* a run of three or more steps at output frequency 2 has returned
C19_Witness ==
  /\ mode = "integrate" /\ pc = "returned"
  /\ outfreq = 2 /\ nstep >= 3 /\ Len(out) = 3

\* C20: every record written by ecc_extrema is a sample of the trajectory,
\* the initial state included as its first sample, that is strictly above
\* the sample before it and the sample after it.
C20_RecordsAreTrueMaxima ==
  mode = "ecc_extrema" =>
    \A i \in 1..Len(out) :
      \E n \in 2..(Len(samples) - 1) :
        /\ out[i] = EventRecord(samples[n].t, samples[n].e)
        /\ IsMax(samples[n - 1].e, samples[n].e, samples[n + 1].e)

\* C21: for every massive-model state with 0 <= e1 < 1 and 0 <= e2 < 1
\* (e1 = 0 and e2 = 0 included) and every combination of the quadrupole,
\* octupole, hexadecapole and gr flags accepted by the constructor, the
\* derivative function returns a value for all six components without a
\* division by zero.
C21_DerivWithoutDivisionByZero ==
  (model = "massive" /\ der # None
     /\ 0 <= sol.y.e1 /\ sol.y.e1 < EccScale
     /\ 0 <= Val(e2) /\ Val(e2) < EccScale)
  => \A c \in DOMAIN Val(der) : Val(der)[c] = "value"

====
